---------------------------- MODULE Spec2Model ----------------------------
(***************************************************************************)
(* A model of zamunda-rss-jackett: the polling orchestrator (main.go), the *)
(* IGDB candidate resolver and scorer (igdb client) and the dedup ledger   *)
(* (sqlite.go).                                                            *)
(*                                                                         *)
(* Conventions.                                                            *)
(*  - A Go string is a sequence of one-character strings, so that          *)
(*    strings.Contains, HasPrefix, Fields, TrimSpace, ToLower and the      *)
(*    regular expressions of extractGameName are computed character by     *)
(*    character.                                                           *)
(*  - Time is counted in whole days since the Unix epoch (a release        *)
(*    timestamp of 0 is "unknown", as in the code).  The code's            *)
(*    yearsDifference = hours / (24 * 365.25) is the rational              *)
(*    4 * days / 1461.                                                     *)
(*  - A float64 score s is the integer s * ScoreScale.  ScoreScale is      *)
(*    chosen so that every value the scorer can produce from the inputs    *)
(*    of this model is an integer: the arithmetic is exact (rational),     *)
(*    not rounded.                                                         *)
(***************************************************************************)
EXTENDS Integers, Sequences, FiniteSets, TLC

---------------------------------------------------------------------------
(* Go's strings package, on sequences of characters.                       *)

WhiteSpace == {" ", "\t", "\n", "\r", "\f"}

Digits == {"0", "1", "2", "3", "4", "5", "6", "7", "8", "9"}

UpperCase == <<"A", "B", "C", "D", "E", "F", "G", "H", "I", "J", "K", "L", "M", "N", "O", "P", "Q", "R", "S", "T", "U", "V", "W", "X", "Y", "Z">>

LowerCase == <<"a", "b", "c", "d", "e", "f", "g", "h", "i", "j", "k", "l", "m", "n", "o", "p", "q", "r", "s", "t", "u", "v", "w", "x", "y", "z">>

UpperToLower ==
    [c \in {UpperCase[i] : i \in 1..Len(UpperCase)} |->
        LowerCase[CHOOSE i \in 1..Len(UpperCase) : UpperCase[i] = c]]

ToLowerChar(c) == IF c \in DOMAIN UpperToLower THEN UpperToLower[c] ELSE c

ToLower(s) == [i \in 1..Len(s) |-> ToLowerChar(s[i])]

(* The number of leading, and of trailing, white space characters of s.   *)
LeadingSpaces(s) ==
    CHOOSE n \in 0..Len(s) :
        /\ \A j \in 1..n : s[j] \in WhiteSpace
        /\ (n = Len(s) \/ s[n + 1] \notin WhiteSpace)

TrailingSpaces(s) ==
    CHOOSE n \in 0..Len(s) :
        /\ \A j \in 1..n : s[Len(s) + 1 - j] \in WhiteSpace
        /\ (n = Len(s) \/ s[Len(s) - n] \notin WhiteSpace)

TrimLeftSpace(s) == SubSeq(s, LeadingSpaces(s) + 1, Len(s))

TrimSpace(s) ==
    IF LeadingSpaces(s) = Len(s) THEN <<>>
    ELSE SubSeq(s, LeadingSpaces(s) + 1, Len(s) - TrailingSpaces(s))

HasPrefix(s, prefix) ==
    Len(prefix) <= Len(s) /\ SubSeq(s, 1, Len(prefix)) = prefix

HasSuffix(s, suffix) ==
    Len(suffix) <= Len(s) /\ SubSeq(s, Len(s) - Len(suffix) + 1, Len(s)) = suffix

TrimPrefix(s, prefix) ==
    IF HasPrefix(s, prefix) THEN SubSeq(s, Len(prefix) + 1, Len(s)) ELSE s

TrimSuffix(s, suffix) ==
    IF HasSuffix(s, suffix) THEN SubSeq(s, 1, Len(s) - Len(suffix)) ELSE s

Contains(s, substr) ==
    \E i \in 0..(Len(s) - Len(substr)) :
        \A k \in 1..Len(substr) : s[i + k] = substr[k]

(* strings.Fields: the maximal runs of non-space characters, in order.     *)
RECURSIVE FieldsFrom(_, _)
FieldsFrom(s, i) ==
    IF i > Len(s) THEN <<>>
    ELSE IF s[i] \in WhiteSpace THEN FieldsFrom(s, i + 1)
    ELSE LET e == CHOOSE j \in i..Len(s) :
                     /\ \A k \in i..j : s[k] \notin WhiteSpace
                     /\ (j = Len(s) \/ s[j + 1] \in WhiteSpace)
         IN  <<SubSeq(s, i, e)>> \o FieldsFrom(s, e + 1)

Fields(s) == FieldsFrom(s, 1)

---------------------------------------------------------------------------
(* Calendar: days since 1970-01-01 (UTC) and the civil year of a day.      *)

Date(y, m, d) ==
    LET yy  == IF m <= 2 THEN y - 1 ELSE y
        era == yy \div 400
        yoe == yy - era * 400
        mp  == IF m > 2 THEN m - 3 ELSE m + 9
        doy == (153 * mp + 2) \div 5 + d - 1
        doe == yoe * 365 + yoe \div 4 - yoe \div 100 + doy
    IN  era * 146097 + doe - 719468

(* time.Unix(ts, 0).Year() *)
Year(day) ==
    LET z   == day + 719468
        era == z \div 146097
        doe == z - era * 146097
        yoe == (doe - doe \div 1460 + doe \div 36524 - doe \div 146096) \div 365
        doy == doe - (365 * yoe + yoe \div 4 - yoe \div 100)
        mp  == (5 * doy + 2) \div 153
    IN  yoe + era * 400 + (IF mp < 10 THEN 0 ELSE 1)

---------------------------------------------------------------------------
(* extractGameName (main.go): seven anchored patterns ^(.+?)<rest>, tried  *)
(* in order.  The lazy group is the shortest non-empty prefix after which  *)
(* <rest> matches; "." does not match a newline.                           *)

(* \s*\[.*?\]  and  \s*\(.*?\)  *)
RestBracketed(r, open, close) ==
    LET t == TrimLeftSpace(r)
    IN  /\ Len(t) >= 2
        /\ t[1] = open
        /\ \E j \in 2..Len(t) :
              t[j] = close /\ \A k \in 2..(j - 1) : t[k] # "\n"

(* \s*-\s*.*  *)
RestDash(r) ==
    LET t == TrimLeftSpace(r) IN Len(t) >= 1 /\ t[1] = "-"

(* \d+\.\d+ at the start of u *)
StartsWithVersion(u) ==
    \E k \in 1..(Len(u) - 2) :
        /\ \A i \in 1..k : u[i] \in Digits
        /\ u[k + 1] = "."
        /\ u[k + 2] \in Digits

(* \s*v?\d+\.\d+  *)
RestVersion(r) ==
    LET t == TrimLeftSpace(r)
    IN  \/ StartsWithVersion(t)
        \/ (Len(t) >= 1 /\ t[1] = "v" /\ StartsWithVersion(Tail(t)))

(* \s*PC.*  \s*REPACK.*  \s*CRACK.*  *)
RestWord(r, word) == HasPrefix(TrimLeftSpace(r), word)

RestMatches(pattern, r) ==
    CASE pattern = 1 -> RestBracketed(r, "[", "]")
      [] pattern = 2 -> RestBracketed(r, "(", ")")
      [] pattern = 3 -> RestDash(r)
      [] pattern = 4 -> RestVersion(r)
      [] pattern = 5 -> RestWord(r, <<"P", "C">>)
      [] pattern = 6 -> RestWord(r, <<"R", "E", "P", "A", "C", "K">>)
      [] pattern = 7 -> RestWord(r, <<"C", "R", "A", "C", "K">>)

NumPatterns == 7

(* The lengths p of a group title[1..p] with which the pattern matches.    *)
GroupLengths(pattern, title) ==
    {p \in 1..Len(title) :
        /\ \A i \in 1..p : title[i] # "\n"
        /\ RestMatches(pattern, SubSeq(title, p + 1, Len(title)))}

(* re.FindStringSubmatch(title)[1], or <<>> with matched = FALSE *)
FindStringSubmatch(pattern, title) ==
    LET ps == GroupLengths(pattern, title)
    IN  IF ps = {} THEN [matched |-> FALSE, group |-> <<>>]
        ELSE [matched |-> TRUE,
              group   |-> SubSeq(title, 1, CHOOSE p \in ps : \A q \in ps : p <= q)]

extractGameName(title) ==
    LET hits == {n \in 1..NumPatterns : FindStringSubmatch(n, title).matched}
    IN  IF hits = {} THEN TrimSpace(title)
        ELSE LET first == CHOOSE n \in hits : \A m \in hits : n <= m
                 g0    == TrimSpace(FindStringSubmatch(first, title).group)
                 g1    == TrimPrefix(g0, <<"[">>)
                 g2    == TrimSuffix(g1, <<"]">>)
             IN  TrimSpace(g2)

---------------------------------------------------------------------------
(* Scores.  Score(m) is the float64 constant m / 1000.                     *)

DaysInFourYears == 1461

ScoreScale == DaysInFourYears * 1000 * 20

Score(milli) == milli * (ScoreScale \div 1000)

(* The slope "milli / 1000 per year" of a linear band, per quarter day.    *)
PerQuarterDay(milli) == Score(milli) \div DaysInFourYears

(* calculateRecencyBonus, future release: num / 1461 = yearsDifference > 0 *)
FutureBonus(num) ==
    IF num <= 1 * DaysInFourYears THEN Score(200)
    ELSE IF num <= 2 * DaysInFourYears
         THEN Score(200) - (num - 1 * DaysInFourYears) * PerQuarterDay(100)
         ELSE Score(50)

PastBonus_SlopeFlipped(since) ==
    IF since <= 2 * DaysInFourYears THEN Score(200)
    ELSE IF since <= 5 * DaysInFourYears
         THEN Score(200) + (since - 2 * DaysInFourYears) * PerQuarterDay(33)
         ELSE IF since <= 10 * DaysInFourYears
              THEN Score(100) - (since - 5 * DaysInFourYears) * PerQuarterDay(10)
              ELSE Score(50)

(* calculateRecencyBonus, past release: since / 1461 = yearsSinceRelease   *)
PastBonus(since) ==
    IF since <= 2 * DaysInFourYears THEN Score(200)
    ELSE IF since <= 5 * DaysInFourYears
         THEN Score(200) - (since - 2 * DaysInFourYears) * PerQuarterDay(33)
         ELSE IF since <= 10 * DaysInFourYears
              THEN Score(100) - (since - 5 * DaysInFourYears) * PerQuarterDay(10)
              ELSE Score(50)

(* The clock is read inside the function (time.Now()): now is the reading. *)
calculateRecencyBonus(releaseDate, now) ==
    IF releaseDate = 0 THEN 0
    ELSE LET num == 4 * (releaseDate - now)
         IN  IF num > 0 THEN FutureBonus(num) ELSE PastBonus(-num)

(* The number of search words that equal some word of the game name.       *)
WordMatches(searchWords, gameWords) ==
    Cardinality({i \in 1..Len(searchWords) :
                    \E j \in 1..Len(gameWords) : searchWords[i] = gameWords[j]})

WordScore_AtLeastHalf(searchQuery, gameName) ==
    LET searchWords == Fields(searchQuery)
        gameWords   == Fields(gameName)
        wordMatches == WordMatches(searchWords, gameWords)
    IN  IF Len(searchWords) > 0 /\ 2 * wordMatches >= Len(searchWords)
        THEN (wordMatches * Score(600)) \div Len(searchWords)
        ELSE 0

(* The word-by-word branch: wordScore = wordMatches / len(searchWords),    *)
(* and wordScore * 0.6 when wordScore > 0.5.                               *)
WordScore(searchQuery, gameName) ==
    LET searchWords == Fields(searchQuery)
        gameWords   == Fields(gameName)
        wordMatches == WordMatches(searchWords, gameWords)
    IN  IF Len(searchWords) > 0 /\ 2 * wordMatches > Len(searchWords)
        THEN (wordMatches * Score(600)) \div Len(searchWords)
        ELSE 0

BaseScore_ExactAs95(searchQuery, gameName) ==
    IF gameName = searchQuery THEN Score(950)
    ELSE IF Contains(gameName, searchQuery)
         THEN (IF HasPrefix(gameName, searchQuery) THEN Score(900) ELSE Score(800))
         ELSE IF Contains(searchQuery, gameName) THEN Score(700)
              ELSE WordScore(searchQuery, gameName)

BaseScore_NoContainedBranch(searchQuery, gameName) ==
    IF gameName = searchQuery THEN Score(1000)
    ELSE IF Contains(gameName, searchQuery)
         THEN (IF HasPrefix(gameName, searchQuery) THEN Score(900) ELSE Score(800))
         ELSE WordScore(searchQuery, gameName)

(* The base textual score of calculateMatchScore; both arguments are       *)
(* normalized.  The second branch repeats the first test and is dead.      *)
BaseScore(searchQuery, gameName) ==
    IF gameName = searchQuery THEN Score(1000)
    ELSE IF gameName = searchQuery THEN Score(950)
    ELSE IF Contains(gameName, searchQuery)
         THEN (IF HasPrefix(gameName, searchQuery) THEN Score(900) ELSE Score(800))
         ELSE IF Contains(searchQuery, gameName) THEN Score(700)
              ELSE WordScore(searchQuery, gameName)

MainGame == 0

MainGameBonus(game, score) ==
    IF game.Category = MainGame THEN score + Score(100) ELSE score

OldReleaseYear == 2010

IsOldRelease(game) ==
    game.FirstReleaseDate # 0 /\ Year(game.FirstReleaseDate) < OldReleaseYear

OldReleasePenalty(game, score) ==
    IF IsOldRelease(game) THEN score \div 2 ELSE score

penaltyWords == <<
    <<"p", "a", "c", "k">>, <<"c", "o", "l", "l", "e", "c", "t", "i", "o", "n">>,
    <<"b", "u", "n", "d", "l", "e">>, <<"d", "o", "u", "b", "l", "e">>,
    <<"t", "r", "i", "p", "l", "e">>, <<"q", "u", "a", "d", "r", "u", "p", "l", "e">>,
    <<"c", "o", "m", "p", "l", "e", "t", "e">>, <<"u", "l", "t", "i", "m", "a", "t", "e">>,
    <<"d", "e", "l", "u", "x", "e">>, <<"e", "d", "i", "t", "i", "o", "n">>,
    <<"r", "e", "m", "a", "s", "t", "e", "r", "e", "d">>,
    <<"r", "e", "m", "a", "s", "t", "e", "r">>,
    <<"d", "e", "f", "i", "n", "i", "t", "i", "v", "e">>,
    <<"a", "n", "n", "i", "v", "e", "r", "s", "a", "r", "y">>,
    <<"g", "o", "l", "d">>, <<"p", "l", "a", "t", "i", "n", "u", "m">>,
    <<"+">>, <<"p", "l", "u", "s">>, <<"a", "n", "d">>, <<"&">>,
    <<"w", "i", "t", "h">>, <<"f", "e", "a", "t", "u", "r", "i", "n", "g">>,
    <<"i", "n", "c", "l", "u", "d", "i", "n", "g">> >>

HasPenaltyWord(gameName) ==
    \E w \in 1..Len(penaltyWords) : Contains(gameName, penaltyWords[w])

NoisePenalty_Inverted(gameName, score) ==
    IF HasPenaltyWord(gameName) THEN score ELSE (score * 3) \div 10

NoisePenalty_PerKeyword(gameName, score) ==
    LET found == Cardinality({w \in 1..Len(penaltyWords) :
                                 Contains(gameName, penaltyWords[w])})
    IN  (score * 3 ^ found) \div (10 ^ found)

(* The loop breaks at the first keyword found: the factor is applied once. *)
NoisePenalty(gameName, score) ==
    IF HasPenaltyWord(gameName) THEN (score * 3) \div 10 ELSE score

CapScore_None(score) == score

CapScore(score) == IF score > Score(1000) THEN Score(1000) ELSE score

calculateMatchScore(searchQuery, game, now) ==
    LET gameName  == ToLower(TrimSpace(game.Name))
        baseScore == BaseScore(searchQuery, gameName)
    IN  IF baseScore > 0
        THEN CapScore(NoisePenalty(gameName,
                 OldReleasePenalty(game,
                     MainGameBonus(game,
                         baseScore + calculateRecencyBonus(game.FirstReleaseDate, now)))))
        ELSE baseScore

(* A nil *igdb.Game; a selected game is its index in the result set.       *)
NilGame == 0

Replaces_PositiveOnly(bestGame, score, bestScore) == score > bestScore

Replaces_OnTies(bestGame, score, bestScore) ==
    bestGame = NilGame \/ score >= bestScore

(* The test that makes the candidate just scored the best one so far.      *)
Replaces(bestGame, score, bestScore) ==
    bestGame = NilGame \/ score > bestScore

RECURSIVE BestFrom(_, _, _, _, _)
BestFrom(searchLower, games, now, i, best) ==
    IF i > Len(games) THEN best
    ELSE LET score        == calculateMatchScore(searchLower, games[i], now)
             recencyBonus == calculateRecencyBonus(games[i].FirstReleaseDate, now)
             line         == [score |-> score, recencyBonus |-> recencyBonus]
         IN  BestFrom(searchLower, games, now, i + 1,
                      IF Replaces(best.game, score, best.score)
                      THEN [game |-> i, score |-> score, log |-> Append(best.log, line)]
                      ELSE [best EXCEPT !.log = Append(best.log, line)])

NoMatch == [game |-> NilGame, score |-> 0, log |-> <<>>]

(* findBestMatch: the index of the selected game in the result set         *)
(* (NilGame for nil), its score, and the decision trace the loop logs for  *)
(* each candidate (its score and its recency bonus).                       *)
findBestMatch(searchQuery, games, now) ==
    IF Len(games) = 0 THEN NoMatch
    ELSE BestFrom(ToLower(TrimSpace(searchQuery)), games, now, 1, NoMatch)

---------------------------------------------------------------------------
(* Inputs: feed item titles, catalog records, clock readings.              *)

Title_Cyberpunk == <<"C", "y", "b", "e", "r", "p", "u", "n", "k", " ", "2", "0", "7", "7", " ", "G", "O", "G", " ", "R", "e", "p", "a", "c", "k", " ", "[", "F", "i", "t", "G", "i", "r", "l", "]">>

Title_Doom == <<"D", "O", "O", "M", " ", "(", "2", "0", "1", "6", ")">>

Title_DoomEternal == <<"D", "o", "o", "m", " ", "E", "t", "e", "r", "n", "a", "l", " ", "-", " ", "C", "O", "D", "E", "X">>

Titles == {Title_Cyberpunk, Title_Doom, Title_DoomEternal}

Title_DoomEternalGold == <<"D", "o", "o", "m", " ", "E", "t", "e", "r", "n", "a", "l", " ", "G", "o", "l", "d", " ", "v", "1", ".", "0">>

(* The titles of the scorer runs: also an item without a title and a title *)
(* of three words.                                                         *)
ScorerTitles == Titles \cup {<<>>, Title_DoomEternalGold}

Name_Cyberpunk == <<"C", "y", "b", "e", "r", "p", "u", "n", "k", " ", "2", "0", "7", "7">>

Name_CyberpunkUltimate == <<"C", "y", "b", "e", "r", "p", "u", "n", "k", " ", "2", "0", "7", "7", ":", " ", "U", "l", "t", "i", "m", "a", "t", "e", " ", "E", "d", "i", "t", "i", "o", "n">>

Name_Doom == <<"D", "o", "o", "m">>

Name_DoomEternal == <<"D", "o", "o", "m", " ", "E", "t", "e", "r", "n", "a", "l">>

Name_FinalDoom == <<"F", "i", "n", "a", "l", " ", "D", "o", "o", "m">>

Name_EternalDoom == <<"E", "t", "e", "r", "n", "a", "l", " ", "D", "o", "o", "m">>

Name_DoomGold == <<"D", "o", "o", "m", " ", "G", "o", "l", "d">>

Name_Quake == <<"Q", "u", "a", "k", "e", " ">>

Names == {Name_Cyberpunk, Name_CyberpunkUltimate, Name_Doom, Name_DoomEternal,
          Name_FinalDoom, Name_EternalDoom, Name_DoomGold, Name_Quake}

Bundle == 3

Categories == {MainGame, Bundle}

(* A record of the catalog (igdb.Game): the fields the program reads.      *)
Game(name, date, category) ==
    [Name |-> name, FirstReleaseDate |-> date, Category |-> category,
     Cover |-> 0, Screenshots |-> <<>>]

Game_Cyberpunk == Game(Name_Cyberpunk, Date(2020, 12, 10), MainGame)

CyberpunkUltimateDates == {Date(2023, 1, 1), Date(2023, 12, 5), Date(2023, 12, 31)}

Games_CyberpunkUltimate ==
    {Game(Name_CyberpunkUltimate, d, Bundle) : d \in CyberpunkUltimateDates}

(* The clock readings of the model. *)
Clock == {Date(2026, 11, 5), Date(2028, 1, 1)}

(* Release timestamps: unknown, before 2010, and in every band of          *)
(* calculateRecencyBonus on both sides of the clock readings.              *)
ReleaseDates ==
    {0, Date(2008, 5, 1), Date(2017, 3, 3), Date(2020, 12, 10), Date(2022, 6, 1),
     Date(2023, 9, 26), Date(2025, 6, 1), Date(2027, 2, 1), Date(2028, 2, 1),
     Date(2028, 8, 1), Date(2030, 1, 1)}

(* Every name with every release timestamp and category. *)
FullCatalog ==
    {Game(n, d, c) : n \in Names, d \in ReleaseDates, c \in Categories}

(* The records a catalog search returns in the resolver runs. *)
Catalog ==
    {Game_Cyberpunk} \cup Games_CyberpunkUltimate \cup
    {Game(Name_Doom, Date(2016, 5, 13), MainGame),
     Game(Name_DoomEternal, Date(2020, 3, 20), MainGame),
     Game(Name_FinalDoom, Date(2021, 12, 1), Bundle),
     Game(Name_EternalDoom, 0, MainGame),
     Game(Name_EternalDoom, Date(2029, 6, 1), Bundle),
     Game(Name_DoomGold, Date(2008, 5, 1), Bundle),
     Game(Name_Quake, Date(2021, 8, 19), MainGame)}

MaxGames == 2

SeqsUpTo(S, n) == UNION {[1..k -> S] : k \in 0..n}

(* The result sets of a catalog search in the polling runs: records with  *)
(* and without a cover and screenshots.                                    *)
WithMedia(game, cover, screenshots) ==
    [game EXCEPT !.Cover = cover, !.Screenshots = screenshots]

MediaCatalog ==
    {WithMedia(Game_Cyberpunk, 1, <<11, 12>>),
     WithMedia(Game(Name_CyberpunkUltimate, Date(2023, 12, 5), Bundle), 2, <<>>),
     WithMedia(Game(Name_Doom, Date(2016, 5, 13), MainGame), 0, <<13>>)}

SearchResults == SeqsUpTo(MediaCatalog, MaxGames)

(* The items of the RSS feed: a GUID and a title. *)
Items ==
    {[Guid |-> "guid-1", Title |-> Title_Cyberpunk],
     [Guid |-> "guid-2", Title |-> Title_Doom]}

Guids == {item.Guid : item \in Items}

MaxFeedItems == 2

(* A feed lists an item once. *)
Feeds ==
    {f \in SeqsUpTo(Items, MaxFeedItems) :
        \A i, j \in 1..Len(f) : f[i].Guid = f[j].Guid => i = j}

MaxCycles == 2

(* The orders in which the results of the screenshot fetches can be        *)
(* collected: any of the references, each at most once, in any order       *)
(* (failed fetches and a timeout drop references).                         *)
Arrivals(ids) ==
    {a \in SeqsUpTo({ids[i] : i \in 1..Len(ids)}, Len(ids)) :
        \A i, j \in 1..Len(a) : a[i] = a[j] => i = j}

---------------------------------------------------------------------------
(* The dedup ledger (sqlite.go): the table processed_posts, as the set of  *)
(* its post ids.                                                           *)

isPostProcessed(db, postID) == postID \in db

markPostProcessed(db, postID) == db \cup {postID}

---------------------------------------------------------------------------
(* The Matrix client (matrix.go).  An event id is a positive number and    *)
(* NoEvent the empty id "".  Every call that leaves the process is logged  *)
(* as a record: the image download, the two content uploads, and the       *)
(* message events handed to the room.                                      *)

NoEvent == 0

Call(op, url, html, root, parent, ok, id) ==
    [op |-> op, url |-> url, html |-> html, root |-> root, parent |-> parent,
     ok |-> ok, id |-> id]

(* http.Get and the decoders of downloadImage. *)
DownloadCall(url, ok) == Call("download", url, FALSE, NoEvent, NoEvent, ok, NoEvent)

(* client.UploadMedia of the image bytes or of the thumbnail. *)
UploadCall(what, url, ok) == Call(what, url, FALSE, NoEvent, NoEvent, ok, NoEvent)

(* client.SendMessageEvent with an m.image content. *)
ImageEvent(url, html, root, parent, ok, id) ==
    Call("m.image", url, html, root, parent, ok, id)

SendFormattedMessage_Threaded(ok, id) ==
    Call("m.text", 0, TRUE, 1, 1, ok, IF ok THEN id ELSE NoEvent)

(* SendFormattedMessage: an m.text event with an HTML body, no relation. *)
SendFormattedMessage(ok, id) ==
    Call("m.text", 0, TRUE, NoEvent, NoEvent, ok, IF ok THEN id ELSE NoEvent)

SendText_AsImage(ok, id) ==
    Call("m.image", 1, FALSE, NoEvent, NoEvent, ok, IF ok THEN id ELSE NoEvent)

(* client.SendText: a plain m.text event. *)
SendText(ok, id) ==
    Call("m.text", 0, FALSE, NoEvent, NoEvent, ok, IF ok THEN id ELSE NoEvent)

(* What SendMessageEvent can do with an image event: accept it and return  *)
(* the response with its event id; fail and return an error with a         *)
(* response; fail and return an error with a nil response.                 *)
Backend == {"ok", "rejected", "nil response"}

InvalidRelation_Never(threadRootID, replyID) == FALSE

(* "replyID must be set when replying in a thread". *)
InvalidRelation(threadRootID, replyID) ==
    threadRootID # NoEvent /\ replyID = NoEvent

(* The relation block of the content: a threaded reply names the root and  *)
(* the parent, a normal reply the parent only, otherwise none.             *)
RelatesTo(threadRootID, replyID) ==
    IF threadRootID # NoEvent
    THEN [root |-> threadRootID, parent |-> replyID]
    ELSE [root |-> NoEvent, parent |-> replyID]

(* The common body of sendMatrixImage and sendMatrixImageHTML: the result  *)
(* is the calls made, the event id and error returned, and whether         *)
(* evt.EventID was read from a nil response (a nil pointer dereference).   *)
SendImageEvent(html, imgURL, threadRootID, replyID, backend, newID) ==
    IF InvalidRelation(threadRootID, replyID)
    THEN [calls |-> <<>>, EventID |-> NoEvent, err |-> "InvalidRelation",
          panic |-> FALSE]
    ELSE LET rel == RelatesTo(threadRootID, replyID)
         IN  [calls |-> <<ImageEvent(imgURL, html, rel.root, rel.parent,
                                     backend = "ok",
                                     IF backend = "ok" THEN newID ELSE NoEvent)>>,
              EventID |-> IF backend = "ok" THEN newID ELSE NoEvent,
              err |-> IF backend = "ok" THEN "" ELSE "PostError",
              panic |-> backend = "nil response"]

sendMatrixImage(imgURL, threadRootID, replyID, backend, newID) ==
    SendImageEvent(FALSE, imgURL, threadRootID, replyID, backend, newID)

sendMatrixImageHTML(imgURL, threadRootID, replyID, backend, newID) ==
    SendImageEvent(TRUE, imgURL, threadRootID, replyID, backend, newID)

(* The format names downloadImage can return: image.Decode gives the name  *)
(* of the registered decoder that recognised the bytes, and the jpeg and   *)
(* png fallbacks give their own.                                           *)
Formats == {"jpeg", "png", "gif"}

(* encodeImage: the bytes of the thumbnail in the format of the image, or  *)
(* nil and an error for a format the switch has no case for.               *)
encodeImage(format) ==
    IF format = "jpeg" THEN [bytes |-> "jpeg thumbnail", err |-> ""]
    ELSE IF format = "png" THEN [bytes |-> "png thumbnail", err |-> ""]
    ELSE [bytes |-> "nil", err |-> "UnsupportedFormat"]

(* thumbBytes, _ := encodeImage(thumb, format): the error is dropped and   *)
(* the bytes, nil or not, are what the thumbnail upload is given.          *)
ThumbBytes(format) == encodeImage(format).bytes

(* How far a postIGDBImageToMatrix call gets: the step that fails, or the  *)
(* outcome of the message event.                                           *)
PostOutcomes ==
    {"download failed", "upload failed", "thumbnail upload failed"} \cup Backend

postIGDBImageToMatrix_ThumbnailOptional(imgURL, htmlCaption, threadRootID, replyID, outcome, newID) ==
    IF outcome = "download failed"
    THEN [calls |-> <<DownloadCall(imgURL, FALSE)>>, EventID |-> NoEvent,
          err |-> "DownloadError", panic |-> FALSE]
    ELSE IF outcome = "upload failed"
    THEN [calls |-> <<DownloadCall(imgURL, TRUE), UploadCall("upload", imgURL, FALSE)>>,
          EventID |-> NoEvent, err |-> "UploadError", panic |-> FALSE]
    ELSE LET backend == IF outcome = "thumbnail upload failed" THEN "ok" ELSE outcome
             sent_   == IF htmlCaption
                        THEN sendMatrixImageHTML(imgURL, threadRootID, replyID,
                                                 backend, newID)
                        ELSE sendMatrixImage(imgURL, threadRootID, replyID,
                                             backend, newID)
         IN  [sent_ EXCEPT !.calls =
                  <<DownloadCall(imgURL, TRUE), UploadCall("upload", imgURL, TRUE),
                    UploadCall("upload thumbnail", imgURL,
                               outcome # "thumbnail upload failed")>> \o @]

(* postIGDBImageToMatrix: the download, the upload of the image, the       *)
(* upload of the thumbnail and the message event, each after the one       *)
(* before succeeded; the first error is returned.  Between the download    *)
(* and the uploads the thumbnail is made; the errors of encodeImage and    *)
(* calcBlurhash are dropped, so no step depends on them.                   *)
postIGDBImageToMatrix(imgURL, htmlCaption, threadRootID, replyID, outcome, newID) ==
    IF outcome = "download failed"
    THEN [calls |-> <<DownloadCall(imgURL, FALSE)>>, EventID |-> NoEvent,
          err |-> "DownloadError", panic |-> FALSE]
    ELSE IF outcome = "upload failed"
    THEN [calls |-> <<DownloadCall(imgURL, TRUE), UploadCall("upload", imgURL, FALSE)>>,
          EventID |-> NoEvent, err |-> "UploadError", panic |-> FALSE]
    ELSE IF outcome = "thumbnail upload failed"
    THEN [calls |-> <<DownloadCall(imgURL, TRUE), UploadCall("upload", imgURL, TRUE),
                      UploadCall("upload thumbnail", imgURL, FALSE)>>,
          EventID |-> NoEvent, err |-> "UploadError", panic |-> FALSE]
    ELSE LET sent_ == IF htmlCaption
                      THEN sendMatrixImageHTML(imgURL, threadRootID, replyID,
                                               outcome, newID)
                      ELSE sendMatrixImage(imgURL, threadRootID, replyID,
                                           outcome, newID)
         IN  [sent_ EXCEPT !.calls =
                  <<DownloadCall(imgURL, TRUE), UploadCall("upload", imgURL, TRUE),
                    UploadCall("upload thumbnail", imgURL, TRUE)>> \o @]

(* The events of a call log that the room accepted, and the event id the   *)
(* room gives the next one.                                                *)
Accepted(log) ==
    SelectSeq(log, LAMBDA c : c.op \in {"m.image", "m.text"} /\ c.ok)

NewEventID(log) == Len(Accepted(log)) + 1

---------------------------------------------------------------------------
VARIABLES
    title,      \* the title of the feed item being resolved
    gameName,   \* the game name extracted from it
    games,      \* the result set of the catalog search for it
    now,        \* the clock (time.Now()), in days
    selected,   \* what the last findBestMatch call returned and logged
    pc,         \* where the polling process is
    cycle,      \* the number of polls made
    feed,       \* the items of the feed as last parsed
    idx,        \* the index of the item being processed
    search,     \* what the last SearchGameWithImages call did
    info,       \* the IGDBGameInfo it returned
    sent,       \* what the notification call for the current item did
    announced,  \* per GUID, the number of times the item got a post in the room
    processed_posts, \* the dedup ledger
    threadRootID,    \* SendGameNotificationWithImages: the thread root
    replyID,         \* SendGameNotificationWithImages: the reply target
    shot,            \* the number of screenshots the loop has handled
    calls,           \* the calls made for the current item, in order
    captions,        \* the captions the screenshot loop made, in order
    image,           \* the arguments of a postIGDBImageToMatrix call
    running,         \* fetchScreenshots: the ids whose goroutine has not sent
    resultChan,      \* fetchScreenshots: the results in the channel
    received,        \* fetchScreenshots: the results taken from the channel
    arrived,         \* every result sent to the channel, in completion order
    fetchErr         \* the error fetchScreenshots returned

rvars == <<title, gameName, games, now, selected>>

ovars == <<pc, cycle, feed, idx, search, info, sent, announced, processed_posts>>

nvars == <<threadRootID, replyID, shot, calls, captions>>

fvars == <<running, resultChan, received, arrived, fetchErr>>

mvars == <<nvars, fvars, image>>

vars == <<rvars, ovars, mvars>>


NoURL == 0

NoImage == [imgURL |-> NoURL, htmlCaption |-> FALSE, format |-> "",
            thumbBytes |-> "", EventID |-> 0, err |-> ""]

NoInfo == [Title |-> <<>>, Date |-> 0, CoverURL |-> NoURL, Screenshots |-> <<>>]

NoSearch == [called |-> FALSE, err |-> "", coverFetched |-> FALSE,
             screenshotsFetched |-> FALSE]

NoSend == [kind |-> "none", ok |-> FALSE, posts |-> 0]

InitPolling ==
    /\ pc = "poll"
    /\ cycle = 0
    /\ feed = <<>>
    /\ idx = 0
    /\ search = NoSearch
    /\ info = NoInfo
    /\ sent = NoSend
    /\ announced = [g \in Guids |-> 0]
    /\ processed_posts = {}
    /\ threadRootID = NoEvent
    /\ replyID = NoEvent
    /\ shot = 0
    /\ calls = <<>>
    /\ captions = <<>>
    /\ image = NoImage
    /\ running = {}
    /\ resultChan = <<>>
    /\ received = 0
    /\ arrived = <<>>
    /\ fetchErr = ""

---------------------------------------------------------------------------
(* The resolver alone.                                                     *)

(* processRSSFeed hands extractGameName(item.Title) to                     *)
(* SearchGameWithImages, which hands it to findBestMatch with the result   *)
(* set of the catalog search.                                              *)
Resolve ==
    /\ selected' = findBestMatch(gameName, games, now)
    /\ UNCHANGED <<title, gameName, games, now>>
    /\ UNCHANGED ovars
    /\ UNCHANGED mvars

(* Time passes. *)
Tick ==
    /\ \E t \in Clock : t > now /\ now' = t
    /\ UNCHANGED <<title, gameName, games, selected>>
    /\ UNCHANGED ovars
    /\ UNCHANGED mvars

InitResolve ==
    /\ title \in Titles
    /\ gameName = extractGameName(title)
    /\ games \in SeqsUpTo(Catalog, MaxGames)
    /\ now \in Clock
    /\ selected = NoMatch
    /\ InitPolling

NextResolve == Resolve \/ Tick

SpecResolve == InitResolve /\ [][NextResolve]_vars

(* The scorer on every pair of records of the full catalog, the record     *)
(* with the earlier release timestamp first.                               *)
InitScore ==
    /\ title \in Titles
    /\ gameName = extractGameName(title)
    /\ games \in {p \in [1..2 -> FullCatalog] :
                     p[1].FirstReleaseDate <= p[2].FirstReleaseDate}
    /\ now \in Clock
    /\ selected = NoMatch
    /\ InitPolling

NextScore == Resolve

SpecScore == InitScore /\ [][NextScore]_vars

(* The scorer on one record of the full catalog at a time, for every title *)
(* of the scorer runs.                                                     *)
InitMatch ==
    /\ title \in ScorerTitles
    /\ gameName = extractGameName(title)
    /\ games \in {<<g>> : g \in FullCatalog}
    /\ now \in Clock
    /\ selected = NoMatch
    /\ InitPolling

NextMatch == Resolve

SpecMatch == InitMatch /\ [][NextMatch]_vars

---------------------------------------------------------------------------
(* The polling process (main and processRSSFeed).                          *)

(* The step to the next item of the feed, or out of the loop; the locals   *)
(* of the loop body (gameName, igdbInfo, err) go out of scope.             *)
NextItem ==
    /\ IF idx < Len(feed)
       THEN idx' = idx + 1 /\ pc' = "search"
       ELSE idx' = idx /\ pc' = "sleep"
    /\ title' = <<>>
    /\ gameName' = <<>>
    /\ games' = <<>>
    /\ selected' = NoMatch
    /\ search' = NoSearch
    /\ info' = NoInfo
    /\ UNCHANGED now

(* One more item of the feed got a post in the room. *)
Announce(posted) ==
    announced' = IF posted
                 THEN [announced EXCEPT ![feed[idx].Guid] = @ + 1]
                 ELSE announced

(* fp.ParseURL: the feed cannot be parsed (main exits with log.Fatalf), or *)
(* it holds some items.                                                    *)
ParseFeed ==
    /\ pc = "poll"
    /\ cycle < MaxCycles
    /\ cycle' = cycle + 1
    /\ \/ /\ pc' = "exit"
          /\ UNCHANGED <<feed, idx>>
       \/ \E f \in Feeds :
             /\ feed' = f
             /\ IF Len(f) = 0 THEN idx' = 0 /\ pc' = "sleep"
                              ELSE idx' = 1 /\ pc' = "search"
    /\ UNCHANGED <<search, info, sent, announced, processed_posts>>
    /\ UNCHANGED rvars
    /\ UNCHANGED mvars

SearchError_NoEmptyCheck(searchOK, gs, best) ==
    IF ~searchOK THEN "SearchFailed"
    ELSE IF best.game = NilGame THEN "NoSuitableMatch"
    ELSE ""

(* The error SearchGameWithImages returns before it builds the info: the   *)
(* catalog search failed, it found no games, or findBestMatch returned     *)
(* nil; "" is no error.                                                    *)
SearchError(searchOK, gs, best) ==
    IF ~searchOK THEN "SearchFailed"
    ELSE IF Len(gs) = 0 THEN "NotFound"
    ELSE IF best.game = NilGame THEN "NoSuitableMatch"
    ELSE ""

(* SearchGameWithImages for the current item: the catalog search fails or  *)
(* returns a result set; on a non-empty one, findBestMatch, then the cover *)
(* fetch (which may fail) and the collection of the screenshot URLs.       *)
SearchGameWithImages ==
    /\ pc = "search"
    /\ title' = feed[idx].Title
    /\ \E name \in {extractGameName(feed[idx].Title)} :
          /\ gameName' = name
          /\ \E searchOK \in BOOLEAN, gs \in SearchResults :
                /\ ~searchOK => gs = <<>>
                /\ games' = gs
                /\ \E best \in {findBestMatch(name, gs, now)} :
                      \E err \in {SearchError(searchOK, gs, best)} :
                         IF err # ""
                         THEN /\ search' = [called |-> TRUE, err |-> err,
                                            coverFetched |-> FALSE,
                                            screenshotsFetched |-> FALSE]
                              /\ selected' = NoMatch
                              /\ info' = NoInfo
                              /\ pc' = "fallback"
                         ELSE \E bestGame \in {gs[best.game]} :
                                 \E coverOK \in BOOLEAN,
                                    shots \in Arrivals(bestGame.Screenshots) :
                                    /\ bestGame.Cover = 0 => coverOK
                                    /\ search' =
                                          [called |-> TRUE, err |-> "",
                                           coverFetched |-> bestGame.Cover # 0,
                                           screenshotsFetched |->
                                               Len(bestGame.Screenshots) > 0]
                                    /\ selected' = best
                                    /\ info' =
                                          [Title |-> bestGame.Name,
                                           Date |-> bestGame.FirstReleaseDate,
                                           CoverURL |->
                                               IF bestGame.Cover # 0 /\ coverOK
                                               THEN bestGame.Cover ELSE NoURL,
                                           Screenshots |-> shots]
                                    /\ pc' = "notify"
    /\ sent' = NoSend
    /\ UNCHANGED <<now, cycle, feed, idx, announced, processed_posts>>
    /\ UNCHANGED mvars

(* No IGDB info: SendMessage with the plain text; the room accepts it or  *)
(* not, and either way the loop goes on (`continue`).                      *)
SendMessage ==
    /\ pc = "fallback"
    /\ \E ok \in BOOLEAN :
          /\ calls' = Append(calls, SendText(ok, NewEventID(calls)))
          /\ sent' = [kind |-> "plain", ok |-> ok, posts |-> IF ok THEN 1 ELSE 0]
          /\ Announce(ok)
    /\ pc' = "notified"
    /\ UNCHANGED <<cycle, feed, idx, search, info, processed_posts>>
    /\ UNCHANGED <<threadRootID, replyID, shot, captions>>
    /\ UNCHANGED <<rvars, fvars, image>>

MaxScreenshots == 5

(* The formatted text message, and the return of its error. *)
TextFallback ==
    \E ok \in BOOLEAN :
       /\ calls' = Append(calls, SendFormattedMessage(ok, NewEventID(calls)))
       /\ sent' = [kind |-> "formatted", ok |-> ok, posts |-> IF ok THEN 1 ELSE 0]
       /\ Announce(ok)
       /\ pc' = "notified"
       /\ UNCHANGED <<threadRootID, replyID, shot>>

CoverFallback_Silent(made) ==
    /\ calls' = calls \o made
    /\ sent' = [kind |-> "formatted", ok |-> FALSE, posts |-> 0]
    /\ Announce(FALSE)
    /\ pc' = "notified"
    /\ UNCHANGED <<threadRootID, replyID, shot>>

(* The cover post failed: the formatted text message after the calls the   *)
(* cover post made.                                                        *)
CoverFallback(made) ==
    \E ok \in BOOLEAN :
       /\ calls' = Append(calls \o made,
                          SendFormattedMessage(ok, NewEventID(calls \o made)))
       /\ sent' = [kind |-> "formatted", ok |-> ok, posts |-> IF ok THEN 1 ELSE 0]
       /\ Announce(ok)
       /\ pc' = "notified"
       /\ UNCHANGED <<threadRootID, replyID, shot>>

(* The read of evt.EventID from a nil response ends the process. *)
Panic(made) ==
    /\ calls' = calls \o made
    /\ pc' = "exit"
    /\ UNCHANGED <<threadRootID, replyID, shot, sent, announced>>

ThreadAfterCover_RootOnly(eventID) == [root |-> eventID, reply |-> NoEvent]

ThreadAfterCover_ReplyOnly(eventID) == [root |-> NoEvent, reply |-> eventID]

(* threadRootID = eventID; replyID = eventID. *)
ThreadAfterCover(eventID) == [root |-> eventID, reply |-> eventID]

(* SendGameNotificationWithImages up to the screenshot loop: the cover     *)
(* image post, which makes the cover event the thread root and the reply   *)
(* target; the formatted text when the cover post fails or there is no     *)
(* cover.                                                                  *)
SendGameNotificationWithImages ==
    /\ pc = "notify"
    /\ IF info.CoverURL # NoURL
       THEN \E outcome \in PostOutcomes :
               \E r \in {postIGDBImageToMatrix(info.CoverURL, TRUE, NoEvent, NoEvent,
                                               outcome, NewEventID(calls))} :
                  IF r.panic THEN Panic(r.calls)
                  ELSE IF r.err # "" THEN CoverFallback(r.calls)
                  ELSE /\ threadRootID' = ThreadAfterCover(r.EventID).root
                       /\ replyID' = ThreadAfterCover(r.EventID).reply
                       /\ calls' = calls \o r.calls
                       /\ sent' = [kind |-> "thread", ok |-> TRUE, posts |-> 1]
                       /\ Announce(TRUE)
                       /\ shot' = 0
                       /\ pc' = "screenshots"
       ELSE TextFallback
    /\ UNCHANGED captions
    /\ UNCHANGED <<cycle, feed, idx, search, info, processed_posts>>
    /\ UNCHANGED <<rvars, fvars, image>>

Caption_ZeroBased(i) == [number |-> i, url |-> info.Screenshots[i + 1]]

(* caption := fmt.Sprintf("Screenshot %d of %s", i+1, gameInfo.Title) for  *)
(* the entry at index i of the range over gameInfo.Screenshots: the number *)
(* in the caption, and the URL the caption goes out with.                  *)
Caption(i) == [number |-> i + 1, url |-> info.Screenshots[i + 1]]

MoreScreenshots_NoLimit == shot < Len(info.Screenshots)

(* The loop over gameInfo.Screenshots goes on: fewer than MaxScreenshots   *)
(* entries were handled and there is one more.                             *)
MoreScreenshots == shot < Len(info.Screenshots) /\ shot < MaxScreenshots

(* One iteration of the screenshot loop: the post of the next screenshot   *)
(* into the thread; its event id is dropped and its error only logged.     *)
PostScreenshot ==
    /\ pc = "screenshots"
    /\ MoreScreenshots
    /\ captions' = Append(captions, Caption(shot))
    /\ \E outcome \in PostOutcomes :
          \E r \in {postIGDBImageToMatrix(info.Screenshots[shot + 1], FALSE,
                                          threadRootID, replyID, outcome,
                                          NewEventID(calls))} :
             IF r.panic THEN Panic(r.calls)
             ELSE /\ calls' = calls \o r.calls
                  /\ sent' = [sent EXCEPT !.posts = IF r.err = "" THEN @ + 1 ELSE @]
                  /\ shot' = shot + 1
                  /\ pc' = "screenshots"
                  /\ UNCHANGED <<threadRootID, replyID, announced>>
    /\ UNCHANGED <<cycle, feed, idx, search, info, processed_posts>>
    /\ UNCHANGED <<rvars, fvars, image>>

(* The loop is over: return nil. *)
ReturnNil ==
    /\ pc = "screenshots"
    /\ ~MoreScreenshots
    /\ pc' = "notified"
    /\ UNCHANGED <<cycle, feed, idx, search, info, sent, announced, processed_posts>>
    /\ UNCHANGED <<rvars, mvars>>

(* processRSSFeed goes on to the next item; the locals of the call for     *)
(* this one are gone.                                                      *)
Continue ==
    /\ pc = "notified"
    /\ NextItem
    /\ threadRootID' = NoEvent
    /\ replyID' = NoEvent
    /\ shot' = 0
    /\ calls' = <<>>
    /\ captions' = <<>>
    /\ UNCHANGED <<cycle, feed, sent, announced, processed_posts>>
    /\ UNCHANGED <<fvars, image>>

(* main: the feed was processed; sleep, then poll again. *)
NextCycle ==
    /\ pc = "sleep"
    /\ pc' = "poll"
    /\ UNCHANGED <<cycle, feed, idx, search, info, sent, announced, processed_posts>>
    /\ UNCHANGED rvars
    /\ UNCHANGED mvars

Init ==
    /\ title = <<>>
    /\ gameName = <<>>
    /\ games = <<>>
    /\ now \in Clock
    /\ selected = NoMatch
    /\ InitPolling

Next ==
    \/ ParseFeed
    \/ SearchGameWithImages
    \/ SendMessage
    \/ SendGameNotificationWithImages
    \/ PostScreenshot
    \/ ReturnNil
    \/ Continue
    \/ NextCycle

Spec == Init /\ [][Next]_vars

---------------------------------------------------------------------------
(* The notification of one resolved item alone: the polling process at     *)
(* the call of SendGameNotificationWithImages, in its last cycle.          *)

(* The info SearchGameWithImages builds from the selected record, the      *)
(* cover URL and the screenshot URLs collected.                            *)
InfoOf(bestGame, coverURL, screenshots) ==
    [Title |-> bestGame.Name, Date |-> bestGame.FirstReleaseDate,
     CoverURL |-> coverURL, Screenshots |-> screenshots]

(* The screenshot URL lists of the notification runs: none, one, two out   *)
(* of reference order, and one more than MaxScreenshots.                   *)
ScreenshotLists ==
    {<<>>, <<11>>, <<12, 11>>, [i \in 1..(MaxScreenshots + 1) |-> 10 + i]}

(* The state of the polling process inside the loop body for the one item  *)
(* of its feed, after the catalog search returned the record `game`.       *)
InitItem(game) ==
    /\ title = Title_Cyberpunk
    /\ gameName = extractGameName(title)
    /\ games = <<game>>
    /\ now \in Clock
    /\ selected = findBestMatch(gameName, games, now)
    /\ cycle = MaxCycles
    /\ feed = <<[Guid |-> "guid-1", Title |-> Title_Cyberpunk]>>
    /\ idx = 1
    /\ search = [called |-> TRUE, err |-> "", coverFetched |-> game.Cover # 0,
                 screenshotsFetched |-> Len(game.Screenshots) > 0]
    /\ sent = NoSend
    /\ announced = [g \in Guids |-> 0]
    /\ processed_posts = {}
    /\ threadRootID = NoEvent
    /\ replyID = NoEvent
    /\ shot = 0
    /\ calls = <<>>
    /\ captions = <<>>
    /\ image = NoImage
    /\ resultChan = <<>>
    /\ received = 0
    /\ arrived = <<>>
    /\ fetchErr = ""

InitNotify ==
    /\ \E cover \in {0, 1}, shots \in ScreenshotLists, coverOK \in BOOLEAN :
          /\ cover = 0 => coverOK
          /\ InitItem(WithMedia(Game_Cyberpunk, cover, shots))
          /\ info = InfoOf(Game_Cyberpunk, IF coverOK THEN cover ELSE NoURL, shots)
    /\ pc = "notify"
    /\ running = {}

NextNotify ==
    \/ SendGameNotificationWithImages
    \/ PostScreenshot
    \/ ReturnNil
    \/ Continue

SpecNotify == InitNotify /\ [][NextNotify]_vars

---------------------------------------------------------------------------
(* fetchScreenshots step by step: SearchGameWithImages has selected a      *)
(* record with screenshots and fetched its cover, and fetchScreenshots has *)
(* launched one goroutine per screenshot id.  The notification follows.    *)

ScreenshotIDLists == {<<11, 12>>, <<11, 12, 13>>}

InitFetch ==
    /\ \E ids \in ScreenshotIDLists :
          /\ InitItem(WithMedia(Game_Cyberpunk, 1, ids))
          /\ running = {ids[i] : i \in 1..Len(ids)}
    /\ info = InfoOf(Game_Cyberpunk, 1, <<>>)
    /\ pc = "fetch"

screenshotIDs == games[selected.game].Screenshots

ChanCap_OneShort(ids) == Len(ids) - 1

(* resultChan := make(chan screenshotResult, len(screenshotIDs)) *)
ChanCap(ids) == Len(ids)

ScreenshotsGet_AppendsToInfo ==
    /\ Len(resultChan) < ChanCap(screenshotIDs)
    /\ \E id \in running, ok \in BOOLEAN :
          /\ running' = running \ {id}
          /\ resultChan' = Append(resultChan, [url |-> id, ok |-> ok])
          /\ arrived' = Append(arrived, [url |-> id, ok |-> ok])
          /\ info' = IF ok THEN [info EXCEPT !.Screenshots = Append(@, id)]
                     ELSE info
    /\ UNCHANGED <<received, fetchErr, image>>
    /\ UNCHANGED <<cycle, feed, idx, search, sent, announced, processed_posts, pc>>
    /\ UNCHANGED <<rvars, nvars>>

(* A goroutine is done: Screenshots.Get failed or gave no image id, or it  *)
(* gave the URL; the result is sent to the channel, which takes it while   *)
(* it holds fewer results than its capacity, and the goroutine returns.    *)
ScreenshotsGet ==
    /\ Len(resultChan) < ChanCap(screenshotIDs)
    /\ \E id \in running, ok \in BOOLEAN :
          /\ running' = running \ {id}
          /\ resultChan' = Append(resultChan, [url |-> id, ok |-> ok])
          /\ arrived' = Append(arrived, [url |-> id, ok |-> ok])
    /\ UNCHANGED <<received, fetchErr, image>>
    /\ UNCHANGED <<rvars, ovars, nvars>>

ChanBack(chan) == Len(chan)

(* The position of the result a receive takes from the channel. *)
ChanFront(chan) == 1

AfterFetch_ReturnsError(err) == IF err # "" THEN "fallback" ELSE "notify"

(* SearchGameWithImages after fetchScreenshots returned: an error is only  *)
(* logged and the info is returned.                                        *)
AfterFetch(err) == "notify"

(* case result := <-resultChan: an error result is logged, a URL is        *)
(* appended to info.Screenshots; after the last result, return nil.        *)
Collect ==
    /\ pc = "fetch"
    /\ received < Len(screenshotIDs)
    /\ resultChan # <<>>
    /\ \E k \in {ChanFront(resultChan)} :
          /\ resultChan' = [i \in 1..(Len(resultChan) - 1) |->
                               IF i < k THEN resultChan[i] ELSE resultChan[i + 1]]
          /\ info' = IF resultChan[k].ok
                     THEN [info EXCEPT !.Screenshots = Append(@, resultChan[k].url)]
                     ELSE info
    /\ received' = received + 1
    /\ pc' = IF received + 1 < Len(screenshotIDs) THEN "fetch" ELSE AfterFetch("")
    /\ UNCHANGED <<running, arrived, fetchErr, image>>
    /\ UNCHANGED <<cycle, feed, idx, search, sent, announced, processed_posts>>
    /\ UNCHANGED <<rvars, nvars>>

(* case <-ctx.Done(): the shared timeout fired; return the error. *)
CtxDone ==
    /\ pc = "fetch"
    /\ received < Len(screenshotIDs)
    /\ fetchErr' = "timeout"
    /\ pc' = AfterFetch("timeout")
    /\ UNCHANGED <<running, resultChan, received, arrived, image>>
    /\ UNCHANGED <<cycle, feed, idx, search, info, sent, announced, processed_posts>>
    /\ UNCHANGED <<rvars, nvars>>

NextFetch ==
    \/ ScreenshotsGet
    \/ Collect
    \/ CtxDone
    \/ SendGameNotificationWithImages
    \/ PostScreenshot
    \/ ReturnNil

SpecFetch == InitFetch /\ [][NextFetch]_vars

---------------------------------------------------------------------------
(* postIGDBImageToMatrix alone, on every combination of a thread root and  *)
(* a reply target.                                                         *)

(* The event ids the caller can hold, and the id of the next event. *)
HeldEventIDs == {NoEvent, 1, 2}

InitPost ==
    /\ title = <<>>
    /\ gameName = <<>>
    /\ games = <<>>
    /\ now \in Clock
    /\ selected = NoMatch
    /\ pc = "post"
    /\ cycle = 0
    /\ feed = <<>>
    /\ idx = 0
    /\ search = NoSearch
    /\ info = NoInfo
    /\ sent = NoSend
    /\ announced = [g \in Guids |-> 0]
    /\ processed_posts = {}
    /\ threadRootID \in HeldEventIDs
    /\ replyID \in HeldEventIDs
    /\ shot = 0
    /\ calls = <<>>
    /\ captions = <<>>
    /\ image \in {[NoImage EXCEPT !.imgURL = url, !.htmlCaption = html,
                                   !.format = format] :
                      url \in {1, 11}, html \in BOOLEAN, format \in Formats}
    /\ running = {}
    /\ resultChan = <<>>
    /\ received = 0
    /\ arrived = <<>>
    /\ fetchErr = ""

(* One call of postIGDBImageToMatrix with the arguments drawn; the format  *)
(* drawn is the one downloadImage detects when the download succeeds.      *)
PostImage ==
    /\ pc = "post"
    /\ \E outcome \in PostOutcomes :
          \E r \in {postIGDBImageToMatrix(image.imgURL, image.htmlCaption,
                                          threadRootID, replyID, outcome, 3)} :
             /\ calls' = r.calls
             /\ image' = [image EXCEPT
                              !.thumbBytes = IF outcome = "download failed"
                                             THEN "" ELSE ThumbBytes(image.format),
                              !.EventID = r.EventID, !.err = r.err]
             /\ pc' = IF r.panic THEN "exit" ELSE "posted"
    /\ UNCHANGED <<cycle, feed, idx, search, info, sent, announced, processed_posts>>
    /\ UNCHANGED <<threadRootID, replyID, shot, captions>>
    /\ UNCHANGED <<rvars, fvars>>

NextPost == PostImage

SpecPost == InitPost /\ [][NextPost]_vars

---------------------------------------------------------------------------
(* Properties.                                                             *)

(* The normalization findBestMatch and calculateMatchScore apply. *)
Norm(s) == ToLower(TrimSpace(s))

(* The decision trace of the last findBestMatch call. *)
Log == selected.log

Scored == 1..Len(Log)

(* C1: across the polling cycles no source item is announced to the room   *)
(* twice: every GUID has at most one successful announcement.              *)
C1_NoItemAnnouncedTwice ==
    \A g \in Guids : announced[g] <= 1

(* C2: an item is in the dedup ledger exactly when a post for it has       *)
(* succeeded: it is recorded once its first post succeeded (the loop has   *)
(* moved on from it), and never before.                                    *)
C2_RecordedAfterFirstPost ==
    \A g \in Guids :
        /\ isPostProcessed(processed_posts, g) => announced[g] > 0
        /\ announced[g] > 0 => isPostProcessed(processed_posts, g)

(* C3: resolution is deterministic: a findBestMatch call with the query    *)
(* and the candidates of an earlier call selects the same candidate with   *)
(* the same score.                                                         *)
C3_SameInputsSameOutcome ==
    [][(Resolve /\ selected # NoMatch /\ gameName' = gameName /\ games' = games)
          => (selected'.game = selected.game /\ selected'.score = selected.score)]_vars

(* C4: every score calculateMatchScore returns is in [0, 1]. *)
C4_ScoreInUnitInterval ==
    \A i \in Scored : Log[i].score >= 0 /\ Log[i].score <= Score(1000)

(* A candidate whose score with the bonuses exceeds 1.0 was scored 1.0. *)
C4_Witness ==
    \E i \in Scored :
        /\ BaseScore(Norm(gameName), Norm(games[i].Name)) > 0
        /\ BaseScore(Norm(gameName), Norm(games[i].Name)) < Score(1000)
        /\ ~IsOldRelease(games[i])
        /\ ~HasPenaltyWord(Norm(games[i].Name))
        /\ MainGameBonus(games[i],
               BaseScore(Norm(gameName), Norm(games[i].Name))
                 + calculateRecencyBonus(games[i].FirstReleaseDate, now)) > Score(1000)
        /\ Log[i].score = Score(1000)

(* C5: a search that returns an empty result set fails with NotFound:      *)
(* findBestMatch returns no candidate for it, SearchGameWithImages returns *)
(* the error and no info, and fetches neither a cover nor a screenshot.    *)
C5_EmptyResultNotFound ==
    (search.called /\ search.err # "SearchFailed" /\ Len(games) = 0)
        => /\ findBestMatch(gameName, games, now).game = NilGame
           /\ search.err = "NotFound"
           /\ info = NoInfo
           /\ ~search.coverFetched
           /\ ~search.screenshotsFetched
           /\ \/ pc = "fallback"
              \/ pc = "notified" /\ sent.kind = "plain"

C5_Witness ==
    search.called /\ search.err = "NotFound" /\ Len(games) = 0 /\ pc = "fallback"

(* C6: findBestMatch scores every candidate and returns the one at the     *)
(* smallest index whose score is the maximum over the sequence.            *)
C6_FirstMaximum ==
    selected.game # NilGame
        => /\ Len(Log) = Len(games)
           /\ selected.game \in Scored
           /\ Log[selected.game].score = selected.score
           /\ \A i \in Scored : Log[i].score <= selected.score
           /\ \A i \in Scored : i < selected.game => Log[i].score < selected.score

(* Two different records tie at a positive maximum; the first is selected. *)
C6_Witness ==
    /\ Len(Log) = 2
    /\ games[1] # games[2]
    /\ Log[1].score = Log[2].score
    /\ Log[1].score > 0
    /\ selected.game = 1

(* C7: a candidate whose normalized name equals the normalized query has   *)
(* base score 1.0 and, unless the noise-keyword or the old-release penalty *)
(* applies to it, a final score at least that of every candidate with a    *)
(* different normalized name.                                              *)
C7_ExactMatchRanksFirst ==
    \A i \in Scored :
        Norm(games[i].Name) = Norm(gameName)
            => /\ BaseScore(Norm(gameName), Norm(games[i].Name)) = Score(1000)
               /\ (~HasPenaltyWord(Norm(games[i].Name)) /\ ~IsOldRelease(games[i]))
                     => \A j \in Scored :
                           Norm(games[j].Name) # Norm(gameName)
                               => Log[i].score >= Log[j].score

(* An exact match without a date and outside the main-game category,      *)
(* against a recent main game whose name only starts with the query.       *)
C7_Witness ==
    /\ Len(Log) = 2
    /\ Norm(games[1].Name) = Norm(gameName)
    /\ games[1].FirstReleaseDate = 0
    /\ games[1].Category # MainGame
    /\ Norm(games[2].Name) # Norm(gameName)
    /\ games[2].Category = MainGame
    /\ Log[2].score = Score(1000)
    /\ Log[1].score = Score(1000)

(* C8: of two candidates with the same base score, release timestamp and   *)
(* category, the one whose name contains a penalty keyword never scores    *)
(* more than the one whose name contains none.                             *)
C8_KeywordNeverOutranks ==
    \A i, j \in Scored :
        ( /\ BaseScore(Norm(gameName), Norm(games[i].Name))
               = BaseScore(Norm(gameName), Norm(games[j].Name))
          /\ games[i].FirstReleaseDate = games[j].FirstReleaseDate
          /\ games[i].Category = games[j].Category
          /\ HasPenaltyWord(Norm(games[i].Name))
          /\ ~HasPenaltyWord(Norm(games[j].Name)) )
            => Log[i].score <= Log[j].score

C8_Witness ==
    \E i, j \in Scored :
        /\ BaseScore(Norm(gameName), Norm(games[i].Name))
             = BaseScore(Norm(gameName), Norm(games[j].Name))
        /\ BaseScore(Norm(gameName), Norm(games[i].Name)) > 0
        /\ games[i].FirstReleaseDate = games[j].FirstReleaseDate
        /\ games[i].Category = games[j].Category
        /\ HasPenaltyWord(Norm(games[i].Name))
        /\ ~HasPenaltyWord(Norm(games[j].Name))
        /\ Log[i].score < Log[j].score

(* The time bands of the recency bonus: the side of the clock reading and  *)
(* the band on that side.                                                  *)
RecencyBand(releaseDate, at) ==
    LET num == 4 * (releaseDate - at)
    IN  IF num > 0
        THEN (IF num <= 1 * DaysInFourYears THEN "future, up to 1 year"
              ELSE IF num <= 2 * DaysInFourYears THEN "future, 1 to 2 years"
              ELSE "future, beyond 2 years")
        ELSE (IF -num <= 2 * DaysInFourYears THEN "past, up to 2 years"
              ELSE IF -num <= 5 * DaysInFourYears THEN "past, 2 to 5 years"
              ELSE IF -num <= 10 * DaysInFourYears THEN "past, 5 to 10 years"
              ELSE "past, beyond 10 years")

Distance(releaseDate, at) ==
    IF releaseDate >= at THEN releaseDate - at ELSE at - releaseDate

(* C9: of two known release times in the same band on the same side of     *)
(* now, the one farther from now never gets the larger recency bonus.      *)
C9_RecencyMonotoneInBand ==
    \A i, j \in Scored :
        ( /\ games[i].FirstReleaseDate # 0
          /\ games[j].FirstReleaseDate # 0
          /\ RecencyBand(games[i].FirstReleaseDate, now)
               = RecencyBand(games[j].FirstReleaseDate, now)
          /\ Distance(games[i].FirstReleaseDate, now)
               <= Distance(games[j].FirstReleaseDate, now) )
            => Log[i].recencyBonus >= Log[j].recencyBonus

(* Two release times in the band 2 to 5 years back, the nearer one with    *)
(* the strictly larger bonus.                                              *)
C9_Witness ==
    \E i, j \in Scored :
        /\ RecencyBand(games[i].FirstReleaseDate, now) = "past, 2 to 5 years"
        /\ RecencyBand(games[j].FirstReleaseDate, now) = "past, 2 to 5 years"
        /\ Distance(games[i].FirstReleaseDate, now)
             < Distance(games[j].FirstReleaseDate, now)
        /\ Log[i].recencyBonus > Log[j].recencyBonus

(* The two result sets of scenario A, in both orders. *)
CyberpunkPairs ==
    {<<Game_Cyberpunk, u>> : u \in Games_CyberpunkUltimate}
        \cup {<<u, Game_Cyberpunk>> : u \in Games_CyberpunkUltimate}

(* C10: the title "Cyberpunk 2077 GOG Repack [FitGirl]" against the        *)
(* main-game record "Cyberpunk 2077" of 2020-12-10 and the bundle record   *)
(* "Cyberpunk 2077: Ultimate Edition" of 2023 resolves to the main-game    *)
(* record, in either order of the two.                                     *)
C10_CyberpunkMainGame ==
    (title = Title_Cyberpunk /\ games \in CyberpunkPairs /\ Len(Log) > 0)
        => /\ selected.game # NilGame
           /\ games[selected.game] = Game_Cyberpunk

(* The bundle record comes first and the main-game record is selected. *)
C10_Witness ==
    /\ title = Title_Cyberpunk
    /\ games \in CyberpunkPairs
    /\ games[2] = Game_Cyberpunk
    /\ Len(Log) = 2
    /\ selected.game = 2

(* The calls of a log with the given operation. *)
CallsOf(log, ops) == SelectSeq(log, LAMBDA c : c.op \in ops)

ImagePipeline == {"download", "upload", "upload thumbnail", "m.image"}

(* A call that carries a relation block. *)
HasRelation(c) == c.root # NoEvent \/ c.parent # NoEvent

(* The call log is one text message without a relation block. *)
OneTextMessage(log, html) ==
    /\ Len(log) = 1
    /\ log[1].op = "m.text"
    /\ log[1].html = html
    /\ ~HasRelation(log[1])

(* C11: posting an image event with a thread root id and an empty reply id *)
(* fails with InvalidRelation wherever the post reaches the event, for the *)
(* plain and the HTML-captioned operation, and sends no event to the room. *)
C11_RootWithoutParentRejected ==
    (pc # "post" /\ threadRootID # NoEvent /\ replyID = NoEvent)
        => /\ image.err # ""
           /\ image.EventID = NoEvent
           /\ CallsOf(calls, {"m.image", "m.text"}) = <<>>
           /\ (CallsOf(calls, {"upload thumbnail"}) # <<>>
                 /\ calls[Len(calls)].ok) => image.err = "InvalidRelation"

C11_Witness ==
    /\ pc = "posted"
    /\ threadRootID # NoEvent
    /\ replyID = NoEvent
    /\ image.err = "InvalidRelation"
    /\ Len(calls) = 3

(* C12: in SendGameNotificationWithImages the reply target is set only if  *)
(* the thread root is set; the root is the id of the first event the room  *)
(* accepted for the candidate, the cover image, and once set it does not   *)
(* change while the call runs.                                             *)
C12_ThreadStateInvariant ==
    /\ [](replyID # NoEvent => threadRootID # NoEvent)
    /\ [](threadRootID # NoEvent
            => /\ Accepted(calls) # <<>>
               /\ Accepted(calls)[1].id = threadRootID
               /\ Accepted(calls)[1].op = "m.image"
               /\ Accepted(calls)[1].url = info.CoverURL)
    /\ [][(threadRootID # NoEvent /\ pc # "notified")
             => threadRootID' = threadRootID]_vars
    /\ [][(threadRootID = NoEvent /\ threadRootID' # NoEvent)
             => (pc = "notify" /\ Accepted(calls) = <<>>)]_vars

(* The root is still the cover event after a screenshot reply went in. *)
C12_Witness ==
    /\ pc = "screenshots"
    /\ threadRootID # NoEvent
    /\ replyID # NoEvent
    /\ Len(Accepted(calls)) >= 2

(* C13: the replies of a thread form a chain: every reply the room         *)
(* accepted names the event accepted just before it as its parent and the  *)
(* cover event as its thread root.                                         *)
C13_RepliesFormChain ==
    threadRootID # NoEvent
        => \A i \in 2..Len(Accepted(calls)) :
              /\ Accepted(calls)[i].root = threadRootID
              /\ Accepted(calls)[i].parent = Accepted(calls)[i - 1].id

(* C14: for a candidate without a cover URL the call sends the formatted   *)
(* text message once and makes no other call: no download, no upload, no   *)
(* event with a relation block, whatever the number of screenshots.        *)
C14_NoCoverTextOnly ==
    /\ pc \in {"screenshots", "exit"} => info.CoverURL # NoURL
    /\ (pc = "notified" /\ info.CoverURL = NoURL)
          => /\ OneTextMessage(calls, TRUE)
             /\ threadRootID = NoEvent
             /\ replyID = NoEvent
             /\ sent.kind = "formatted"
             /\ sent.ok = calls[1].ok

C14_Witness ==
    /\ pc = "notified"
    /\ info.CoverURL = NoURL
    /\ Len(info.Screenshots) > MaxScreenshots
    /\ Len(calls) = 1
    /\ calls[1].ok

(* C15: when the cover post fails at any step, the call sends the          *)
(* formatted text message once, without a relation block, attempts no      *)
(* screenshot, and the process goes on.                                    *)
C15_CoverFailureFallsBack ==
    (info.CoverURL # NoURL /\ pc \in {"notified", "exit"} /\ threadRootID = NoEvent)
        => /\ pc = "notified"
           /\ OneTextMessage(CallsOf(calls, {"m.text"}), TRUE)
           /\ Accepted(CallsOf(calls, {"m.image"})) = <<>>
           /\ \A i \in 1..Len(calls) : calls[i].url \in {0, info.CoverURL}

(* The downloads the screenshot loop started: the downloads after the      *)
(* first call of the log, which is the download of the cover.              *)
ScreenshotAttempts == CallsOf(Tail(calls), {"download"})

Min(a, b) == IF a <= b THEN a ELSE b

(* C16: after the cover was posted a screenshot failure of any kind is     *)
(* isolated: the process goes on, the remaining screenshots are attempted, *)
(* and the call returns nil.                                               *)
C16_ScreenshotFailureIsolated ==
    threadRootID # NoEvent
        => /\ pc # "exit"
           /\ pc = "notified"
                 => /\ Len(ScreenshotAttempts)
                         = Min(Len(info.Screenshots), MaxScreenshots)
                    /\ sent.ok

(* C17: when SearchGameWithImages returns an error the orchestrator sends  *)
(* the plain text message, makes no call of the image pipeline, and goes   *)
(* on to the next item of the feed.                                        *)
C17_ResolutionFailurePlainText ==
    /\ []((search.called /\ search.err # "")
            => /\ info = NoInfo
               /\ CallsOf(calls, ImagePipeline) = <<>>
               /\ \/ pc = "fallback" /\ calls = <<>>
                  \/ /\ pc = "notified"
                     /\ OneTextMessage(calls, FALSE)
                     /\ sent.kind = "plain")
    /\ [][(search.called /\ search.err # "" /\ pc = "notified")
             => \/ pc' = "search" /\ idx' = idx + 1
                \/ pc' = "sleep" /\ idx = Len(feed)]_vars

C17_Witness ==
    /\ search.called
    /\ search.err = "SearchFailed"
    /\ pc = "notified"
    /\ Len(calls) = 1
    /\ idx < Len(feed)

(* C18: the screenshot loop attempts the entries of the screenshot list in *)
(* order and at most the first MaxScreenshots = 5 of them; the entries     *)
(* after them are dropped and the call returns nil.                        *)
C18_AtMostFiveScreenshots ==
    threadRootID # NoEvent
        => /\ Len(ScreenshotAttempts) <= MaxScreenshots
           /\ Len(ScreenshotAttempts) <= Len(info.Screenshots)
           /\ \A i \in 1..Len(ScreenshotAttempts) :
                 ScreenshotAttempts[i].url = info.Screenshots[i]
           /\ pc = "notified"
                 => /\ Len(ScreenshotAttempts)
                         = Min(Len(info.Screenshots), MaxScreenshots)
                    /\ sent.ok

C18_Witness ==
    /\ pc = "notified"
    /\ threadRootID # NoEvent
    /\ Len(info.Screenshots) > MaxScreenshots
    /\ Len(ScreenshotAttempts) = MaxScreenshots

IsPrefix(a, b) == Len(a) <= Len(b) /\ \A i \in 1..Len(a) : a[i] = b[i]

URLs(log) == [i \in 1..Len(log) |-> log[i].url]

(* The URLs of the successful fetch results, in the order of completion. *)
ArrivedURLs == URLs(SelectSeq(arrived, LAMBDA r : r.ok))

(* C19: when the shared timeout fires during the collection,               *)
(* fetchScreenshots returns an error, the URLs collected so far stay in    *)
(* the info, SearchGameWithImages returns that info without an error, and  *)
(* the notification posts the URLs collected.                              *)
C19_TimeoutKeepsPartialResults ==
    /\ [][(fetchErr = "" /\ fetchErr' = "timeout")
             => /\ received < Len(screenshotIDs)
                /\ info' = info
                /\ search'.err = ""
                /\ pc' = "notify"]_vars
    /\ [][fetchErr = "timeout" => info' = info]_vars
    /\ [](fetchErr = "timeout"
            => /\ pc \in {"notify", "screenshots", "notified", "exit"}
               /\ Len(info.Screenshots) <= received
               /\ IsPrefix(info.Screenshots, ArrivedURLs)
               /\ (pc = "notified" /\ threadRootID # NoEvent)
                     => URLs(ScreenshotAttempts)
                           = SubSeq(info.Screenshots, 1,
                                    Min(Len(info.Screenshots), MaxScreenshots)))

(* The timeout fired after one URL was collected and before the last       *)
(* result; the URL was posted into the thread.                             *)
C19_Witness ==
    /\ fetchErr = "timeout"
    /\ pc = "notified"
    /\ Len(info.Screenshots) = 1
    /\ received < Len(screenshotIDs)
    /\ Len(Accepted(calls)) = 2
    /\ Accepted(calls)[2].url = info.Screenshots[1]

(* C20: the screenshots are posted in the order in which the fetches       *)
(* completed: the URLs collected are a prefix of the URLs of the           *)
(* successful results in completion order, all of them without a timeout,  *)
(* and the posts are attempted in the order of the URLs collected.         *)
C20_PostedInArrivalOrder ==
    /\ pc \in {"fetch", "notify", "screenshots", "notified", "exit"}
          => IsPrefix(info.Screenshots, ArrivedURLs)
    /\ (pc # "fetch" /\ fetchErr = "" /\ running = {})
          => info.Screenshots = ArrivedURLs
    /\ threadRootID # NoEvent
          => IsPrefix(URLs(ScreenshotAttempts), info.Screenshots)
    /\ (pc = "notified" /\ threadRootID # NoEvent /\ fetchErr = "")
          => URLs(ScreenshotAttempts)
                = SubSeq(ArrivedURLs, 1, Min(Len(ArrivedURLs), MaxScreenshots))

(* Both fetches of two succeeded, the second reference first, and the      *)
(* posts went out in that order.                                           *)
C20_Witness ==
    /\ pc = "notified"
    /\ fetchErr = ""
    /\ threadRootID # NoEvent
    /\ Len(ArrivedURLs) >= 2
    /\ ArrivedURLs[1] = screenshotIDs[2]
    /\ ArrivedURLs[2] = screenshotIDs[1]
    /\ URLs(CallsOf(Accepted(calls), {"m.image"}))
          = <<info.CoverURL>> \o ArrivedURLs

(* The position of a screenshot URL in the reference list of the selected  *)
(* record (the URL of a reference is modelled by the reference).           *)
OriginalIndex(url) == CHOOSE i \in 1..Len(screenshotIDs) : screenshotIDs[i] = url

(* C21: the number in each screenshot caption is the index of the          *)
(* screenshot in the original reference list of the record, whatever the   *)
(* order in which the fetches completed and whichever fetches failed.      *)
C21_CaptionIsOriginalIndex ==
    \A k \in 1..Len(captions) :
        captions[k].number = OriginalIndex(captions[k].url)

(* C21, amended: the number in each screenshot caption is the position of  *)
(* the screenshot in the list of URLs collected, which is the position of  *)
(* its post among the screenshot posts of the thread.                      *)
C21_CaptionIsCollectedPosition ==
    /\ threadRootID = NoEvent => captions = <<>>
    /\ threadRootID # NoEvent
          => /\ Len(captions) = Len(ScreenshotAttempts)
             /\ \A k \in 1..Len(captions) :
                   /\ captions[k].number = k
                   /\ captions[k].url = info.Screenshots[k]
                   /\ captions[k].url = ScreenshotAttempts[k].url

(* The second reference was collected first, and its caption is number 1.  *)
C21_Witness ==
    /\ Len(captions) >= 2
    /\ captions[1].url = screenshotIDs[2]
    /\ captions[1].number = 1
    /\ captions[2].url = screenshotIDs[1]
    /\ captions[2].number = 2

(* C22: an image whose detected format is outside the set the encoder      *)
(* supports (jpeg, png) is a terminal failure for that image: the post     *)
(* fails with UnsupportedFormat, nothing is uploaded and no event is sent. *)
C22_UnsupportedFormatIsTerminal ==
    (pc # "post" /\ calls[1].ok /\ encodeImage(image.format).err # "")
        => /\ image.err = "UnsupportedFormat"
           /\ image.EventID = NoEvent
           /\ CallsOf(calls, {"upload", "upload thumbnail", "m.image"}) = <<>>

(* The message events of a call log: the sends to the room. *)
Sends(log) == CallsOf(log, {"m.text", "m.image"})

(* Where the polling process is while it handles an item of the feed. *)
InItem == {"search", "fallback", "notify", "screenshots"}

Overlap(q, n) ==
    [matched |-> Cardinality({i \in 1..Len(Fields(q)) :
                                 \E j \in 1..Len(Fields(n)) :
                                    Fields(q)[i] = Fields(n)[j]}),
     words   |-> Len(Fields(q))]

(* The reference of the base score, for a normalized query q and name n.   *)
BaseReference(q, n) ==
    IF n = q THEN Score(1000)
    ELSE IF HasPrefix(n, q) THEN Score(900)
    ELSE IF Contains(n, q) THEN Score(800)
    ELSE IF Contains(q, n) THEN Score(700)
    ELSE LET f == Overlap(q, n)
         IN  IF f.words > 0 /\ 10 * f.matched > 5 * f.words
             THEN (f.matched * Score(600)) \div f.words
             ELSE 0

(* C24: the base score of calculateMatchScore is 1.0 for n = q, else 0.9   *)
(* when q is a prefix of n, else 0.8 when n contains q, else 0.7 when q    *)
(* contains n, else f * 0.6 for a word overlap f > 0.5 and 0 otherwise: a  *)
(* half overlap gives 0, an empty query 0.9, and a word overlap stays      *)
(* below 0.7.                                                              *)
C24_BaseScoreReference ==
    \A i \in Scored :
        LET q == Norm(gameName)
            n == Norm(games[i].Name)
        IN  /\ BaseScore(q, n) = BaseReference(q, n)
            /\ (q = <<>> /\ n # <<>>) => BaseScore(q, n) = Score(900)
            /\ (Overlap(q, n).words > 0
                  /\ 2 * Overlap(q, n).matched = Overlap(q, n).words
                  /\ ~Contains(n, q) /\ ~Contains(q, n))
                 => /\ BaseScore(q, n) = 0
                    /\ Log[i].score = 0
            /\ (~Contains(n, q) /\ ~Contains(q, n))
                 => BaseScore(q, n) <= Score(600)

(* One of the two words of the query is a word of the name, neither        *)
(* string contains the other, and the score is 0.                          *)
C24_Witness ==
    /\ Len(Log) = 1
    /\ Overlap(Norm(gameName), Norm(games[1].Name)) = [matched |-> 1, words |-> 2]
    /\ ~Contains(Norm(games[1].Name), Norm(gameName))
    /\ ~Contains(Norm(gameName), Norm(games[1].Name))
    /\ Log[1].score = 0

(* The penalty keywords the normalized name n contains. *)
KeywordsIn(n) == {w \in 1..Len(penaltyWords) : Contains(n, penaltyWords[w])}

(* The reference of the final score for a base score b: the bonuses are    *)
(* added, then the old-release factor 0.5 and the noise factor 0.3 are     *)
(* applied, the latter once, then the clamp at 1.0.                        *)
FinalReference(b, game, at) ==
    IF b = 0 THEN 0
    ELSE LET added == b + calculateRecencyBonus(game.FirstReleaseDate, at)
                        + (IF game.Category = MainGame THEN Score(100) ELSE 0)
             aged  == IF game.FirstReleaseDate # 0
                         /\ Year(game.FirstReleaseDate) < OldReleaseYear
                      THEN added \div 2 ELSE added
             noisy == IF KeywordsIn(Norm(game.Name)) # {}
                      THEN (aged * 3) \div 10 ELSE aged
         IN  Min(Score(1000), noisy)

(* C25: for a base score b > 0 the final score is                          *)
(* min(1, (b + recency bonus + 0.1 for a main game) * 0.5 for a known      *)
(* release year before 2010 * 0.3 for a name with a penalty keyword), the  *)
(* noise factor applied once however many keywords match; for b = 0 the    *)
(* final score is 0.                                                       *)
C25_FinalScoreReference ==
    \A i \in Scored :
        LET b == BaseScore(Norm(gameName), Norm(games[i].Name))
        IN  /\ Log[i].score = FinalReference(b, games[i], now)
            /\ b = 0 => Log[i].score = 0
            /\ b > 0 => Log[i].score > 0

(* A main game of 2008 whose name holds two penalty keywords: both bonuses *)
(* were added, then both factors applied, the noise factor once.           *)
C25_Witness ==
    /\ Len(Log) = 1
    /\ BaseScore(Norm(gameName), Norm(games[1].Name)) = Score(900)
    /\ games[1].Category = MainGame
    /\ Year(games[1].FirstReleaseDate) < OldReleaseYear
    /\ Cardinality(KeywordsIn(Norm(games[1].Name))) >= 2
    /\ Log[1].recencyBonus = Score(50)
    /\ Log[1].score = (((Score(900) + Score(50) + Score(100)) \div 2) * 3) \div 10

(* C26: a candidate whose score is 0 is returned only when it is the only  *)
(* candidate of the result set; in a result set of two or more candidates  *)
(* a zero-score candidate is out of contention.                            *)
C26_ZeroScoreOnlyWhenAlone ==
    (selected.game # NilGame /\ selected.score = 0) => Len(games) = 1

(* C26, amended: a candidate whose score is 0 is returned exactly when     *)
(* every candidate of the result set scores 0, and it is then the first    *)
(* candidate, however many there are; when some candidate scores more      *)
(* than 0 no zero-score candidate is returned.                             *)
C26_ZeroScoreOnlyWhenAllZero ==
    Len(Log) > 0
        => /\ selected.game # NilGame
           /\ selected.score = 0
                 => /\ selected.game = 1
                    /\ \A i \in Scored : Log[i].score = 0
           /\ (\A i \in Scored : Log[i].score = 0) => selected.score = 0
           /\ (\E i \in Scored : Log[i].score > 0)
                 => /\ selected.score > 0
                    /\ Log[selected.game].score > 0

(* Two different candidates, both with score 0: the first is returned. *)
C26_Witness ==
    /\ Len(Log) = 2
    /\ games[1] # games[2]
    /\ Log[1].score = 0
    /\ Log[2].score = 0
    /\ selected.game = 1
    /\ selected.score = 0

(* C27: SendGameNotificationWithImages never makes a post with a thread    *)
(* root and no reply target, whatever the candidate and the outcome of the *)
(* cover post: every post that got through its uploads reached the room    *)
(* (none failed with InvalidRelation), every event that names a root names *)
(* a parent, and the cover event carries no relation block.                *)
C27_InvalidRelationUnreachable ==
    /\ pc = "notify" => (threadRootID = NoEvent /\ replyID = NoEvent)
    /\ pc = "screenshots" => (threadRootID # NoEvent /\ replyID # NoEvent)
    /\ \A i \in 1..Len(calls) :
          /\ (calls[i].op = "upload thumbnail" /\ calls[i].ok)
                => /\ i < Len(calls)
                   /\ calls[i + 1].op = "m.image"
                   /\ calls[i + 1].url = calls[i].url
          /\ (calls[i].op = "m.image" /\ calls[i].root # NoEvent)
                => calls[i].parent # NoEvent
          /\ (calls[i].op = "m.image" /\ calls[i].url = info.CoverURL)
                => ~HasRelation(calls[i])

(* The cover and two screenshots went through as events: the cover with no *)
(* relation block, the screenshots with a root and a parent.               *)
C27_Witness ==
    /\ pc = "notified"
    /\ Len(Accepted(calls)) = 3
    /\ ~HasRelation(Accepted(calls)[1])
    /\ Accepted(calls)[2].root # NoEvent
    /\ Accepted(calls)[2].parent # NoEvent
    /\ Accepted(calls)[3].root # NoEvent
    /\ Accepted(calls)[3].parent # NoEvent

(* The positions in a log of the calls of the given kinds for the URL. *)
CallsFor(log, url, ops) ==
    {i \in 1..Len(log) : log[i].url = url /\ log[i].op \in ops}

(* C28: for every image the message event is sent only after the image and *)
(* then its thumbnail were uploaded successfully; when either upload fails *)
(* no event is sent for the image and no upload is made again.             *)
C28_EventAfterBothUploads ==
    \A i \in 1..Len(calls) :
        /\ calls[i].op = "m.image"
              => /\ i >= 4
                 /\ calls[i - 3] = DownloadCall(calls[i].url, TRUE)
                 /\ calls[i - 2] = UploadCall("upload", calls[i].url, TRUE)
                 /\ calls[i - 1] = UploadCall("upload thumbnail", calls[i].url, TRUE)
        /\ calls[i].op = "upload thumbnail"
              => /\ i >= 3
                 /\ calls[i - 1] = UploadCall("upload", calls[i].url, TRUE)
        /\ calls[i].op = "upload"
              => /\ i >= 2
                 /\ calls[i - 1] = DownloadCall(calls[i].url, TRUE)
        /\ (calls[i].op \in {"upload", "upload thumbnail"} /\ ~calls[i].ok)
              => \A j \in (i + 1)..Len(calls) : calls[j].url # calls[i].url
        /\ calls[i].op \in {"upload", "upload thumbnail"}
              => Cardinality(CallsFor(calls, calls[i].url, {calls[i].op})) = 1

(* The thumbnail upload of the first screenshot failed: no event for it,   *)
(* and the next screenshot went through its own uploads to its event.      *)
C28_Witness ==
    /\ pc = "notified"
    /\ Len(info.Screenshots) = 2
    /\ \E i \in 1..Len(calls) :
          /\ calls[i] = UploadCall("upload thumbnail", info.Screenshots[1], FALSE)
          /\ CallsFor(calls, info.Screenshots[1], {"m.image"}) = {}
          /\ Len(calls) = i + 4
          /\ calls[i + 4].op = "m.image"
          /\ calls[i + 4].url = info.Screenshots[2]
          /\ calls[i + 4].ok

(* C29: during fetchScreenshots no shared state is written by two tasks:   *)
(* the screenshot list of the info is written only by a step of the        *)
(* collector, and the step of a worker adds its own result to the channel  *)
(* and writes nothing else, in every interleaving.                         *)
C29_NoSharedWrites ==
    /\ [][info' # info
             => /\ pc = "fetch"
                /\ received' = received + 1
                /\ running' = running
                /\ resultChan # <<>>
                /\ info' = [info EXCEPT !.Screenshots = Append(@, resultChan[1].url)]]_vars
    /\ [][running' # running
             => /\ \E id \in running :
                      /\ running' = running \ {id}
                      /\ Len(resultChan') = Len(resultChan) + 1
                      /\ SubSeq(resultChan', 1, Len(resultChan)) = resultChan
                      /\ resultChan'[Len(resultChan')].url = id
                /\ UNCHANGED <<info, received, fetchErr, pc>>
                /\ UNCHANGED <<search, sent, announced, nvars>>]_vars

(* Both workers were done only after the collector had returned on the     *)
(* timeout with one URL: the second result stays in the channel and the    *)
(* info holds the one URL.                                                 *)
C29_Witness ==
    /\ fetchErr = "timeout"
    /\ running = {}
    /\ received = 1
    /\ Len(resultChan) >= 1
    /\ resultChan[1].ok
    /\ Len(info.Screenshots) = 1
    /\ Len(ArrivedURLs) >= 2

(* C30: every worker sends exactly one result to the channel and is never  *)
(* blocked on the send, in every interleaving, also after the collector    *)
(* returned on the timeout; the collector receives at most one result for  *)
(* each reference, and the list collected never has more entries than      *)
(* there are references.                                                   *)
C30_WorkersNeverBlock ==
    /\ running # {} => ENABLED ScreenshotsGet
    /\ Len(arrived) + Cardinality(running) = Len(screenshotIDs)
    /\ \A i, j \in 1..Len(arrived) : arrived[i].url = arrived[j].url => i = j
    /\ \A i \in 1..Len(arrived) : arrived[i].url \notin running
    /\ received + Len(resultChan) = Len(arrived)
    /\ received <= Len(screenshotIDs)
    /\ Len(info.Screenshots) <= received

(* The collector returned on the timeout before any result; every worker   *)
(* then sent its result, and the channel holds them all.                   *)
C30_Witness ==
    /\ fetchErr = "timeout"
    /\ received = 0
    /\ running = {}
    /\ Len(resultChan) = Len(screenshotIDs)
    /\ Len(resultChan) = ChanCap(screenshotIDs)

===========================================================================
